---- MODULE Spec2Model ----
(***************************************************************************)
(* EchoQuest navigation engine (GameLogic): randomized depth-first maze    *)
(* generation, move validation and execution, win detection, the BFS       *)
(* distance routine of the engine and of the visual monitor, and the       *)
(* value returned by getGameState; the corridor-plus-cross generator; the  *)
(* sound subsystem (AudioSystem); the key handling of EchoQuestGame.       *)
(***************************************************************************)
EXTENDS Integers, Sequences, FiniteSets, TLC

\* Largest width / height a caller requests, and the cap on moveCount.
MaxWidth == 7
MaxHeight == 5
MaxMoves == 3
\* Largest dimension requested, and the number of writes a caller makes to
\* values it got from getGameState, where callers that write are considered.
CallerMaxSize == 5
MaxWrites == 1
\* Dimensions of the arbitrary grids the distance routine is applied to.
AnyWidth == 3
AnyHeight == 2
\* Number of initialize() calls made on one AudioSystem.
MaxInitCalls == 2
\* Largest width / height requested of the corridor-plus-cross generator.
MaxCorridor == 8
\* Pan values are counted in tenths; callers pass the multiples of PanStep
\* from -MaxPanSteps * PanStep to MaxPanSteps * PanStep.
MaxPanSteps == 4
\* The maze size the game asks for, the cap on moveCount in a game, and the
\* number of resets the player makes.  getMazeSize() answers 9, 15 or 25;
\* GameSize is the smallest odd size with a goal apart from the start and
\* stands for them.
GameSize == 5
GameMoves == 4
MaxResets == 1
\* Number of key presses made before the audio is initialized, each of which
\* calls initialize(); at most MaxInitCalls.
MaxEarlyKeys == 1

CELL_EMPTY == 0
CELL_WALL == 1
NO_PATH == 9999

Directions == {"north", "south", "east", "west"}

VARIABLES
  pc,             \* "generate" inside generateMazeDFS's loop, "play" once the engine is built
  reqWidth,       \* width argument of the constructor call
  reqHeight,      \* height argument of the constructor call
  maze,           \* state.maze: maze[y][x]
  stack,          \* generateMazeDFS's stack of [x, y] pairs
  playerPosition, \* state.playerPosition
  goalPosition,   \* state.goalPosition
  gameWon,        \* state.gameWon
  moveCount,      \* state.moveCount
  call,           \* the public operation that ran last, with its argument
  result,         \* value returned by the last movePlayer of the current game
  snapshot,       \* value returned by the last getGameState, as the caller holds it
  distance,       \* value the last BFS query returned: engine's and monitor's
  writes,         \* number of writes the caller has made to the value it holds
  contextState,   \* audioContext.state: "suspended" or "running"
  sounds,         \* AudioSystem.sounds: for each name, how often it has been set
  isInitialized,  \* AudioSystem.isInitialized
  initCalls,      \* the initialize() calls: where each stands and how it ended
  played,         \* playback nodes the last handler started: name and pan written
  cacheRead,      \* whether a playSound has looked a name up in sounds
  isAudioInitialized, \* EchoQuestGame's isAudioInitialized
  isCelebrating,  \* EchoQuestGame's isCelebrating
  timers,         \* timeouts scheduled by handleMove and not yet fired
  gameState,      \* EchoQuestGame's gameState: the value last given to setGameState
  handlerStale,   \* the registered handleKeyPress calls a handleMove of a replaced engine
  resets          \* number of resetGame calls of EchoQuestGame so far

engineVars == <<pc, reqWidth, reqHeight, maze, stack, playerPosition,
                goalPosition, gameWon, moveCount>>
audioVars == <<contextState, sounds, isInitialized, initCalls, played, cacheRead>>
uiVars == <<isAudioInitialized, isCelebrating, timers, gameState,
            handlerStale, resets>>

vars == <<pc, reqWidth, reqHeight, maze, stack, playerPosition, goalPosition,
          gameWon, moveCount, call, result, snapshot, distance, writes,
          contextState, sounds, isInitialized, initCalls, played, cacheRead,
          isAudioInitialized, isCelebrating, timers, gameState,
          handlerStale, resets>>

----------------------------------------------------------------------------
\* Grids

Pos(px, py) == [x |-> px, y |-> py]

Height(m) == Cardinality(DOMAIN m)
Width(m) == Cardinality(DOMAIN m[0])

Abs(n) == IF n < 0 THEN -n ELSE n

\* generateMaze, lines 31-40: even dimensions are incremented, every cell is a wall.
WallGrid(width, height) ==
  LET w == IF width % 2 = 0 THEN width + 1 ELSE width
      h == IF height % 2 = 0 THEN height + 1 ELSE height
  IN  [y \in 0..(h - 1) |-> [x \in 0..(w - 1) |-> CELL_WALL]]

\* generateMaze up to the head of generateMazeDFS's loop: the start cell is carved.
generateMaze(width, height) ==
  [WallGrid(width, height) EXCEPT ![1][1] = CELL_EMPTY]

\* The four 2-cell jumps, in the order the array is declared.
JumpDirections == << <<0, -2>>, <<0, 2>>, <<2, 0>>, <<-2, 0>> >>

Swap(s, i, j) == [s EXCEPT ![i] = s[j], ![j] = s[i]]

\* The Fisher-Yates loop for i = 3, 2, 1 with the drawn indices j3, j2, j1
\* (0-based in the source, sequences are 1-based here).
Shuffle(d, j3, j2, j1) ==
  Swap(Swap(Swap(d, 4, j3 + 1), 3, j2 + 1), 2, j1 + 1)

\* The carve test with the east bound one cell short.
CanCarveShortOfEast(m, x, y, d) ==
  LET nx == x + d[1]
      ny == y + d[2]
  IN  /\ nx > 0 /\ nx < Width(m) - 2
      /\ ny > 0 /\ ny < Height(m) - 1
      /\ m[ny][nx] = CELL_WALL

\* The condition of the carve test.
CanCarve(m, x, y, d) ==
  LET nx == x + d[1]
      ny == y + d[2]
  IN  /\ nx > 0 /\ nx < Width(m) - 1
      /\ ny > 0 /\ ny < Height(m) - 1
      /\ m[ny][nx] = CELL_WALL

\* Index of the first direction of dirs that passes the carve test, 0 if none.
FirstCarvable(m, x, y, dirs) ==
  LET ok == {i \in 1..4 : CanCarve(m, x, y, dirs[i])}
  IN  IF ok = {} THEN 0 ELSE CHOOSE i \in ok : \A k \in ok : i <= k

\* The carve without the cell between.
CarveNoConnector(m, x, y, d) ==
  [m EXCEPT ![y + d[2]][x + d[1]] = CELL_EMPTY]

\* The neighbour and the cell between are set EMPTY.
Carve(m, x, y, d) ==
  [m EXCEPT ![y + d[2]][x + d[1]] = CELL_EMPTY,
            ![y + (d[2] \div 2)][x + (d[1] \div 2)] = CELL_EMPTY]

----------------------------------------------------------------------------
\* Distances

getDistance(pos1, pos2) == Abs(pos1.x - pos2.x) + Abs(pos1.y - pos2.y)

\* Unit steps in the order the BFS scans them: north, south, east, west.
UnitSteps == << <<0, -1>>, <<0, 1>>, <<1, 0>>, <<-1, 0>> >>

\* The inner for loop with the generator's strict lower bounds (nx > 0, ny > 0).
RECURSIVE ExpandStrictBounds(_, _, _, _, _)
ExpandStrictBounds(m, cur, queue, visited, i) ==
  IF i > 4 THEN [queue |-> queue, visited |-> visited]
  ELSE LET nx == cur.x + UnitSteps[i][1]
           ny == cur.y + UnitSteps[i][2]
       IN  IF /\ nx > 0 /\ nx < Width(m)
              /\ ny > 0 /\ ny < Height(m)
              /\ m[ny][nx] = CELL_EMPTY
              /\ <<nx, ny>> \notin visited
           THEN ExpandStrictBounds(m, cur,
                       Append(queue, [x |-> nx, y |-> ny, dist |-> cur.dist + 1]),
                       visited \cup {<<nx, ny>>}, i + 1)
           ELSE ExpandStrictBounds(m, cur, queue, visited, i + 1)

\* The inner for loop of the BFS: neighbours of (x, y) that are in bounds,
\* EMPTY and not visited are marked and enqueued with dist + 1.
RECURSIVE Expand(_, _, _, _, _)
Expand(m, cur, queue, visited, i) ==
  IF i > 4 THEN [queue |-> queue, visited |-> visited]
  ELSE LET nx == cur.x + UnitSteps[i][1]
           ny == cur.y + UnitSteps[i][2]
       IN  IF /\ nx >= 0 /\ nx < Width(m)
              /\ ny >= 0 /\ ny < Height(m)
              /\ m[ny][nx] = CELL_EMPTY
              /\ <<nx, ny>> \notin visited
           THEN Expand(m, cur,
                       Append(queue, [x |-> nx, y |-> ny, dist |-> cur.dist + 1]),
                       visited \cup {<<nx, ny>>}, i + 1)
           ELSE Expand(m, cur, queue, visited, i + 1)

\* The while loop of the BFS.
RECURSIVE BFSLoop(_, _, _, _)
BFSLoop(m, goal, queue, visited) ==
  IF queue = <<>> THEN NO_PATH
  ELSE LET cur == Head(queue)
       IN  IF cur.x = goal.x /\ cur.y = goal.y THEN cur.dist
           ELSE LET next == Expand(m, cur, Tail(queue), visited, 1)
                IN  BFSLoop(m, goal, next.queue, next.visited)

BFSFrom(m, from, goal) ==
  BFSLoop(m, goal, <<[x |-> from.x, y |-> from.y, dist |-> 0]>>, {<<from.x, from.y>>})

\* The engine's routine, on the engine's state.
getDistanceToGoal == BFSFrom(maze, playerPosition, goalPosition)

\* The monitor's copy of the routine, on the game state it is handed.
RECURSIVE MonitorExpand(_, _, _, _, _)
MonitorExpand(m, cur, queue, visited, i) ==
  IF i > 4 THEN [queue |-> queue, visited |-> visited]
  ELSE LET nx == cur.x + UnitSteps[i][1]
           ny == cur.y + UnitSteps[i][2]
       IN  IF /\ nx >= 0 /\ nx < Width(m)
              /\ ny >= 0 /\ ny < Height(m)
              /\ m[ny][nx] = 0
              /\ <<nx, ny>> \notin visited
           THEN MonitorExpand(m, cur,
                       Append(queue, [x |-> nx, y |-> ny, dist |-> cur.dist + 1]),
                       visited \cup {<<nx, ny>>}, i + 1)
           ELSE MonitorExpand(m, cur, queue, visited, i + 1)

RECURSIVE MonitorLoop(_, _, _, _)
MonitorLoop(m, goal, queue, visited) ==
  IF queue = <<>> THEN 9999
  ELSE LET cur == Head(queue)
       IN  IF cur.x = goal.x /\ cur.y = goal.y THEN cur.dist
           ELSE LET next == MonitorExpand(m, cur, Tail(queue), visited, 1)
                IN  MonitorLoop(m, goal, next.queue, next.visited)

getMazeDistanceToGoal(gs) ==
  MonitorLoop(gs.maze, gs.goalPosition,
              <<[x |-> gs.playerPosition.x,
                 y |-> gs.playerPosition.y, dist |-> 0]>>,
              {<<gs.playerPosition.x, gs.playerPosition.y>>})

----------------------------------------------------------------------------
\* Engine operations

NoResult == [success |-> FALSE, hitWall |-> FALSE,
             isCorrectDirection |-> FALSE, distanceToGoal |-> -1]
NoSnapshot == [taken |-> FALSE]
NoDistance == [engine |-> -1, monitor |-> -1]

getNewPosition(direction) ==
  CASE direction = "north" -> Pos(playerPosition.x, playerPosition.y - 1)
    [] direction = "south" -> Pos(playerPosition.x, playerPosition.y + 1)
    [] direction = "east"  -> Pos(playerPosition.x + 1, playerPosition.y)
    [] direction = "west"  -> Pos(playerPosition.x - 1, playerPosition.y)

isValidPosition(pos) ==
  /\ pos.x >= 0 /\ pos.x < Width(maze)
  /\ pos.y >= 0 /\ pos.y < Height(maze)

\* The names generateSounds caches, in the order it sets them.
SoundOrder == <<"footstep-normal", "footstep-correct", "wall-collision",
                "open-space", "goal-close", "goal-medium", "goal-near",
                "celebration">>
SoundNames == {SoundOrder[i] : i \in 1..Len(SoundOrder)}

NoCalls == [c \in 1..MaxInitCalls |-> [pc |-> "idle", outcome |-> "none"]]

\* new AudioSystem(): an empty cache, the flag false, the context in the
\* state the browser's autoplay policy gives it.
AudioSystemConstructor(state) ==
  /\ contextState = state
  /\ sounds = [n \in SoundNames |-> 0]
  /\ isInitialized = FALSE
  /\ initCalls = NoCalls
  /\ played = <<>>
  /\ cacheRead = FALSE

\* getGameState() of an engine made by new GameLogic(size, size) and not
\* moved yet.
FreshGameState(size) ==
  [playerPosition |-> Pos(1, 1), goalPosition |-> Pos(size - 2, size - 2),
   gameWon |-> FALSE, moveCount |-> 0]

\* The useState defaults of EchoQuestGame.
ComponentState ==
  /\ isAudioInitialized = FALSE
  /\ isCelebrating = FALSE
  /\ timers = <<>>
  /\ gameState = FreshGameState(GameSize)
  /\ handlerStale = FALSE
  /\ resets = 0

\* new GameLogic(width, height) up to the head of the carve loop.
Constructor(width, height) ==
  /\ reqWidth = width
  /\ reqHeight = height
  /\ playerPosition = Pos(1, 1)
  /\ goalPosition = Pos(width - 2, height - 2)
  /\ maze = generateMaze(width, height)
  /\ stack = << <<1, 1>> >>
  /\ gameWon = FALSE
  /\ moveCount = 0
  /\ pc = "generate"
  /\ call = [op |-> "constructor", arg |-> "none"]
  /\ result = NoResult
  /\ snapshot = NoSnapshot
  /\ distance = NoDistance
  /\ writes = 0

Init ==
  /\ \E width \in 3..MaxWidth, height \in 3..MaxHeight : Constructor(width, height)
  /\ AudioSystemConstructor("suspended")
  /\ ComponentState

\* One iteration of generateMazeDFS's while loop; the loop exit (and with it
\* the return of the constructor or of resetGame) is part of the iteration
\* that empties the stack.
GenerateMazeDFSStep ==
  /\ pc = "generate"
  /\ stack # <<>>
  /\ \E j3 \in 0..3, j2 \in 0..2, j1 \in 0..1 :
       LET dirs == Shuffle(JumpDirections, j3, j2, j1)
           x == stack[Len(stack)][1]
           y == stack[Len(stack)][2]
           k == FirstCarvable(maze, x, y, dirs)
       IN  IF k # 0
           THEN /\ maze' = Carve(maze, x, y, dirs[k])
                /\ stack' = Append(stack, <<x + dirs[k][1], y + dirs[k][2]>>)
           ELSE /\ maze' = maze
                /\ stack' = SubSeq(stack, 1, Len(stack) - 1)
  /\ pc' = IF stack' = <<>> THEN "play" ELSE "generate"
  /\ UNCHANGED <<reqWidth, reqHeight, playerPosition, goalPosition, gameWon,
                 moveCount, call, result, snapshot, distance, writes>>
  /\ UNCHANGED <<audioVars, uiVars>>

\* The goal test comparing the x coordinate only.
ReachedGoalXOnly(newPos) == newPos.x = goalPosition.x

\* The goal test of movePlayer.
ReachedGoal(newPos) ==
  newPos.x = goalPosition.x /\ newPos.y = goalPosition.y

\* The wall test without the look at the target cell.
HitWallNever(newPos) == ~isValidPosition(newPos)

\* The wall test of movePlayer.
HitWall(newPos) ==
  ~isValidPosition(newPos) \/ maze[newPos.y][newPos.x] = CELL_WALL

\* The can-move test without the look at the target cell.
canMoveInBoundsOnly(direction) == isValidPosition(getNewPosition(direction))

canMove(direction) ==
  LET newPos == getNewPosition(direction)
  IN  isValidPosition(newPos) /\ maze[newPos.y][newPos.x] = CELL_EMPTY

\* The body of movePlayer: what it does to the engine's state and the value
\* it returns.
movePlayer(direction) ==
  LET newPos == getNewPosition(direction)
  IN  IF HitWall(newPos)
      THEN /\ result' = [success |-> FALSE, hitWall |-> TRUE,
                         isCorrectDirection |-> FALSE,
                         distanceToGoal |-> getDistanceToGoal]
           /\ UNCHANGED <<playerPosition, moveCount, gameWon>>
      ELSE LET currentDistance == getDistanceToGoal
               newDistance == getDistance(newPos, goalPosition)
           IN  /\ playerPosition' = newPos
               /\ moveCount' = moveCount + 1
               /\ gameWon' = IF ReachedGoal(newPos) THEN TRUE ELSE gameWon
               /\ result' = [success |-> TRUE, hitWall |-> FALSE,
                             isCorrectDirection |-> newDistance < currentDistance,
                             distanceToGoal |-> newDistance]

MovePlayer(direction) ==
  /\ pc = "play"
  /\ moveCount < MaxMoves
  /\ call' = [op |-> "movePlayer", arg |-> direction]
  /\ movePlayer(direction)
  \* after a successful move state.playerPosition refers to a new object
  /\ snapshot' = IF result'.success /\ snapshot.taken
                 THEN [snapshot EXCEPT !.sharesPlayer = FALSE]
                 ELSE snapshot
  /\ UNCHANGED <<pc, reqWidth, reqHeight, maze, stack, goalPosition, distance,
                 writes>>
  /\ UNCHANGED <<audioVars, uiVars>>

\* canMove(direction): the value it returns is kept with the call.
CanMove(direction) ==
  /\ pc = "play"
  /\ call' = [op |-> "canMove", arg |-> direction, value |-> canMove(direction)]
  /\ UNCHANGED <<engineVars, result, snapshot, distance, writes>>
  /\ UNCHANGED <<audioVars, uiVars>>

\* { ...this.state }: the primitive fields are copied, the maze and the two
\* positions are the engine's own objects.  The returned value is kept as its
\* copied fields and, for each of the three objects, whether it still is the
\* object the engine's state refers to (and so has the engine's contents).
GetGameState ==
  /\ pc = "play"
  /\ call' = [op |-> "getGameState", arg |-> "none"]
  /\ snapshot' = [taken |-> TRUE,
                  gameWon |-> gameWon,
                  moveCount |-> moveCount,
                  sharesPlayer |-> TRUE,
                  sharesGoal |-> TRUE,
                  sharesMaze |-> TRUE]
  /\ UNCHANGED <<pc, reqWidth, reqHeight, maze, stack, playerPosition,
                 goalPosition, gameWon, moveCount, result, distance, writes>>
  /\ UNCHANGED <<audioVars, uiVars>>

\* The values getMazeString writes for the player and the goal.
MARK_PLAYER == 2
MARK_GOAL == 3

\* The grid getMazeString marks: the player first, then the goal over it.
Mark(m, player, goal) ==
  LET withPlayer == [m EXCEPT ![player.y][player.x] = MARK_PLAYER]
  IN  [withPlayer EXCEPT ![goal.y][goal.x] = MARK_GOAL]

\* One cell of the string.
Glyph(cell) ==
  IF cell = CELL_EMPTY THEN "."
  ELSE IF cell = CELL_WALL THEN "#"
  ELSE IF cell = MARK_PLAYER THEN "P"
  ELSE IF cell = MARK_GOAL THEN "G"
  ELSE "?"

\* The string getMazeString returns, as its rows of glyphs (the rows are
\* joined by newlines, the glyphs of a row by spaces).
getMazeString ==
  LET marked == Mark(maze, playerPosition, goalPosition)
  IN  [y \in 0..(Height(maze) - 1) |->
        [x \in 0..(Width(maze) - 1) |-> Glyph(marked[y][x])]]

\* The engine's grid after marks were written on the engine's rows.
GridMarkedInPlace(m, marked) == marked

\* The engine's grid after getMazeString marked `marked`: the marks went to
\* rows copied by maze.map(row => [...row]), the engine's rows are as before.
GridAfterMarking(m, marked) == m

GetMazeString ==
  /\ pc = "play"
  /\ call' = [op |-> "getMazeString", arg |-> "none", value |-> getMazeString]
  /\ maze' = GridAfterMarking(maze, Mark(maze, playerPosition, goalPosition))
  /\ UNCHANGED <<pc, reqWidth, reqHeight, stack, playerPosition, goalPosition,
                 gameWon, moveCount, result, snapshot, distance, writes>>
  /\ UNCHANGED <<audioVars, uiVars>>

\* The goal of a reset taken from the constructor's arguments.
ResetGoalFromRequest(m) == Pos(reqWidth - 2, reqHeight - 2)

\* goalPosition as resetGame sets it: from the dimensions of the old maze.
ResetGoal(m) == Pos(Width(m) - 2, Height(m) - 2)

\* resetGame up to the head of the carve loop: a new state object, a new maze
\* of the old maze's dimensions.
ResetGame ==
  /\ pc = "play"
  /\ call' = [op |-> "resetGame", arg |-> "none"]
  /\ playerPosition' = Pos(1, 1)
  /\ goalPosition' = ResetGoal(maze)
  /\ maze' = generateMaze(Width(maze), Height(maze))
  /\ stack' = << <<1, 1>> >>
  /\ gameWon' = FALSE
  /\ moveCount' = 0
  /\ pc' = "generate"
  /\ snapshot' = IF snapshot.taken
                 THEN [snapshot EXCEPT !.sharesPlayer = FALSE,
                                       !.sharesGoal = FALSE,
                                       !.sharesMaze = FALSE]
                 ELSE snapshot
  /\ result' = NoResult
  /\ UNCHANGED <<reqWidth, reqHeight, distance, writes>>
  /\ UNCHANGED <<audioVars, uiVars>>

Next ==
  \/ GenerateMazeDFSStep
  \/ \E direction \in Directions : MovePlayer(direction)
  \/ GetGameState
  \/ ResetGame

Spec == Init /\ [][Next]_vars

\* The generator alone, run by the constructor and by every reset.  The carve
\* loop is straight-line synchronous code: once entered, its next iteration
\* is always taken, which is weak fairness of the iteration step.
NextGenerate ==
  \/ GenerateMazeDFSStep
  \/ ResetGame

SpecGenerate == Init /\ [][NextGenerate]_vars /\ WF_vars(GenerateMazeDFSStep)

----------------------------------------------------------------------------
\* The corridor-plus-cross generator (the non-randomized GameLogic)

\* generateMaze of this generator: width x height walls, no coercion.
CorridorWallGrid(width, height) ==
  [y \in 0..(height - 1) |-> [x \in 0..(width - 1) |-> CELL_WALL]]

\* m with the cells of the set cells, where they are cells of m, set to v.
SetCells(m, cells, v) ==
  [y \in DOMAIN m |-> [x \in DOMAIN m[y] |->
     IF Pos(x, y) \in cells THEN v ELSE m[y][x]]]

\* The strategic walls with the second one on the goal corner.
StrategicWallCellsOnGoal(width, height) ==
  {Pos(3, 2), Pos(width - 2, height - 2)}

\* The two cells createPath walls up again.
StrategicWallCells(width, height) ==
  {Pos(3, 2), Pos(width - 4, height - 3)}

\* new GameLogic(width, height) of this generator up to the first loop of
\* createPath.
CorridorConstructor(width, height) ==
  /\ reqWidth = width
  /\ reqHeight = height
  /\ playerPosition = Pos(1, 1)
  /\ goalPosition = Pos(width - 2, height - 2)
  /\ maze = CorridorWallGrid(width, height)
  /\ stack = <<>>
  /\ gameWon = FALSE
  /\ moveCount = 0
  /\ pc = "horizontal"
  /\ call = [op |-> "constructor", arg |-> "none"]
  /\ result = NoResult
  /\ snapshot = NoSnapshot
  /\ distance = NoDistance
  /\ writes = 0

InitCorridor ==
  /\ \E width \in 3..MaxCorridor, height \in 3..MaxCorridor :
        CorridorConstructor(width, height)
  /\ AudioSystemConstructor("suspended")
  /\ ComponentState

\* createPath, first loop: rows 1 and height-2.
CreatePathHorizontal ==
  /\ pc = "horizontal"
  /\ maze' = SetCells(maze,
                 {Pos(x, 1) : x \in 1..(reqWidth - 2)} \cup
                 {Pos(x, reqHeight - 2) : x \in 1..(reqWidth - 2)}, CELL_EMPTY)
  /\ pc' = "vertical"
  /\ UNCHANGED <<reqWidth, reqHeight, stack, playerPosition, goalPosition,
                 gameWon, moveCount, call, result, snapshot, distance, writes>>
  /\ UNCHANGED <<audioVars, uiVars>>

\* createPath, second loop: columns 1 and width-2.
CreatePathVertical ==
  /\ pc = "vertical"
  /\ maze' = SetCells(maze,
                 {Pos(1, y) : y \in 1..(reqHeight - 2)} \cup
                 {Pos(reqWidth - 2, y) : y \in 1..(reqHeight - 2)}, CELL_EMPTY)
  /\ pc' = "cross"
  /\ UNCHANGED <<reqWidth, reqHeight, stack, playerPosition, goalPosition,
                 gameWon, moveCount, call, result, snapshot, distance, writes>>
  /\ UNCHANGED <<audioVars, uiVars>>

\* createPath, the two loops of the middle cross.
CreatePathCross ==
  /\ pc = "cross"
  /\ LET midX == reqWidth \div 2
         midY == reqHeight \div 2
     IN  maze' = SetCells(maze,
                   {Pos(x, midY) : x \in 2..(reqWidth - 3)} \cup
                   {Pos(midX, y) : y \in 2..(reqHeight - 3)}, CELL_EMPTY)
  /\ pc' = "walls"
  /\ UNCHANGED <<reqWidth, reqHeight, stack, playerPosition, goalPosition,
                 gameWon, moveCount, call, result, snapshot, distance, writes>>
  /\ UNCHANGED <<audioVars, uiVars>>

\* createPath, the strategic walls, and the return of the constructor.
CreatePathWalls ==
  /\ pc = "walls"
  /\ maze' = IF reqWidth > 5 /\ reqHeight > 5
             THEN SetCells(maze, StrategicWallCells(reqWidth, reqHeight), CELL_WALL)
             ELSE maze
  /\ pc' = "play"
  /\ UNCHANGED <<reqWidth, reqHeight, stack, playerPosition, goalPosition,
                 gameWon, moveCount, call, result, snapshot, distance, writes>>
  /\ UNCHANGED <<audioVars, uiVars>>

NextCorridor ==
  \/ CreatePathHorizontal
  \/ CreatePathVertical
  \/ CreatePathCross
  \/ CreatePathWalls

SpecCorridor == InitCorridor /\ [][NextCorridor]_vars

----------------------------------------------------------------------------
\* The distance routines on arbitrary grids

\* The game state a render of the monitor is handed.
GameStateView ==
  [playerPosition |-> playerPosition, goalPosition |-> goalPosition,
   maze |-> maze, gameWon |-> gameWon, moveCount |-> moveCount]

\* One evaluation of the engine's getDistanceToGoal and of the monitor's
\* getMazeDistanceToGoal on the same state.
DistanceQuery ==
  /\ pc = "play"
  /\ distance' = [engine |-> getDistanceToGoal,
                  monitor |-> getMazeDistanceToGoal(GameStateView)]
  /\ UNCHANGED <<pc, reqWidth, reqHeight, maze, stack, playerPosition,
                 goalPosition, gameWon, moveCount, call, result, snapshot, writes>>
  /\ UNCHANGED <<audioVars, uiVars>>

AnyCells == {Pos(cx, cy) : cx \in 0..(AnyWidth - 1), cy \in 0..(AnyHeight - 1)}

\* Every AnyWidth x AnyHeight grid of EMPTY and WALL cells, connected or not,
\* the player on any EMPTY cell and the goal on any cell.
InitAny ==
  /\ maze \in [0..(AnyHeight - 1) -> [0..(AnyWidth - 1) -> {CELL_EMPTY, CELL_WALL}]]
  /\ playerPosition \in {c \in AnyCells : maze[c.y][c.x] = CELL_EMPTY}
  /\ goalPosition \in AnyCells
  /\ reqWidth = AnyWidth
  /\ reqHeight = AnyHeight
  /\ stack = <<>>
  /\ gameWon = FALSE
  /\ moveCount = 0
  /\ pc = "play"
  /\ call = [op |-> "constructor", arg |-> "none"]
  /\ result = NoResult
  /\ snapshot = NoSnapshot
  /\ distance = NoDistance
  /\ writes = 0
  /\ AudioSystemConstructor("suspended")
  /\ ComponentState

NextAny == DistanceQuery

SpecAny == InitAny /\ [][NextAny]_vars

----------------------------------------------------------------------------
\* A caller that writes to the value getGameState returned

\* A write to a cell of the maze of the returned value.  The maze is the
\* engine's own array for as long as the engine has not been reset.
CallerWriteMaze ==
  /\ pc = "play"
  /\ snapshot.taken
  /\ writes < MaxWrites
  /\ \E cx \in 0..(Width(maze) - 1), cy \in 0..(Height(maze) - 1),
        v \in {CELL_EMPTY, CELL_WALL} :
        maze' = IF snapshot.sharesMaze THEN [maze EXCEPT ![cy][cx] = v] ELSE maze
  /\ writes' = writes + 1
  /\ call' = [op |-> "callerWrite", arg |-> "maze"]
  /\ UNCHANGED <<pc, reqWidth, reqHeight, stack, playerPosition, goalPosition,
                 gameWon, moveCount, result, snapshot, distance>>
  /\ UNCHANGED <<audioVars, uiVars>>

\* A write to a coordinate of the playerPosition of the returned value.  The
\* position is the engine's own object until movePlayer or resetGame
\* replaces it.
CallerWritePlayer ==
  /\ pc = "play"
  /\ snapshot.taken
  /\ writes < MaxWrites
  /\ \E cx \in 0..(Width(maze) - 1), cy \in 0..(Height(maze) - 1) :
        playerPosition' = IF snapshot.sharesPlayer THEN Pos(cx, cy) ELSE playerPosition
  /\ writes' = writes + 1
  /\ call' = [op |-> "callerWrite", arg |-> "playerPosition"]
  /\ UNCHANGED <<pc, reqWidth, reqHeight, maze, stack, goalPosition,
                 gameWon, moveCount, result, snapshot, distance>>
  /\ UNCHANGED <<audioVars, uiVars>>

\* A write to a coordinate of the goalPosition of the returned value.
CallerWriteGoal ==
  /\ pc = "play"
  /\ snapshot.taken
  /\ writes < MaxWrites
  /\ \E cx \in 0..(Width(maze) - 1), cy \in 0..(Height(maze) - 1) :
        goalPosition' = IF snapshot.sharesGoal THEN Pos(cx, cy) ELSE goalPosition
  /\ writes' = writes + 1
  /\ call' = [op |-> "callerWrite", arg |-> "goalPosition"]
  /\ UNCHANGED <<pc, reqWidth, reqHeight, maze, stack, playerPosition,
                 gameWon, moveCount, result, snapshot, distance>>
  /\ UNCHANGED <<audioVars, uiVars>>

InitCaller ==
  /\ \E width \in 3..CallerMaxSize, height \in 3..CallerMaxSize :
        Constructor(width, height)
  /\ AudioSystemConstructor("suspended")
  /\ ComponentState

NextCaller ==
  \/ GenerateMazeDFSStep
  \/ \E direction \in Directions : MovePlayer(direction)
  \/ GetGameState
  \/ ResetGame
  \/ CallerWriteMaze
  \/ CallerWritePlayer
  \/ CallerWriteGoal

SpecCaller == InitCaller /\ [][NextCaller]_vars

\* A caller that uses the engine's queries between its moves and resets.
NextQuery ==
  \/ GenerateMazeDFSStep
  \/ \E direction \in Directions : MovePlayer(direction)
  \/ \E direction \in Directions : CanMove(direction)
  \/ GetGameState
  \/ GetMazeString
  \/ ResetGame

SpecQuery == InitCaller /\ [][NextQuery]_vars

----------------------------------------------------------------------------
\* The sound subsystem (AudioSystem)

\* 1.0 in tenths, the step between the pan values tried, and those values.
PanUnit == 10
PanStep == 5
PanValues == {PanStep * k : k \in (0 - MaxPanSteps)..MaxPanSteps}

Min(a, b) == IF a < b THEN a ELSE b
Max(a, b) == IF a > b THEN a ELSE b

\* The clamp without its lower bound.
ClampPanUpperOnly(panValue) == Min(PanUnit, panValue)

\* Math.max(-1, Math.min(1, panValue))
ClampPan(panValue) == Max(0 - PanUnit, Min(PanUnit, panValue))

\* this.sounds.has(soundName)
Has(soundName) == soundName \in SoundNames /\ sounds[soundName] > 0

\* The early-return test of playSound looking at the flag only.
PlayGuardFlagOnly(soundName) == ~isInitialized

\* The early-return test of playSound.
PlayGuard(soundName) == ~isInitialized \/ ~Has(soundName)

\* The playback nodes one playSound(soundName, panValue) starts; nodeOk says
\* whether creating, connecting and starting the nodes went without an
\* exception (one is caught and logged inside playSound).
playSound(soundName, panValue, nodeOk) ==
  IF PlayGuard(soundName) \/ ~nodeOk
  THEN <<>>
  ELSE << [name |-> soundName, pan |-> ClampPan(panValue)] >>

\* How one playSound call ends; it never ends by raising.
playSoundOutcome(soundName, nodeOk) ==
  IF PlayGuard(soundName) THEN "skipped"
  ELSE IF nodeOk THEN "started" ELSE "warned"

\* The early-return test of initialize that never returns early.
AlreadyInitializedNever == FALSE

\* The early-return test of initialize.
AlreadyInitialized == isInitialized

\* A continuation that runs as a microtask is pending: the one after
\* `await this.generateSounds()`.  No event handler runs before it has.
MicrotasksPending == \E c \in 1..MaxInitCalls : initCalls[c].pc = "awaitGenerate"

\* sounds after generateSounds has set its first k names.
SetFirst(k) ==
  [n \in SoundNames |->
     IF \E i \in 1..k : SoundOrder[i] = n THEN sounds[n] + 1 ELSE sounds[n]]

\* generateSounds run by call c: it sets every name, or throws while
\* synthesizing the buffer after the first k names; the throw is caught by
\* initialize, which logs a warning and returns.
generateSounds(c) ==
  \E k \in 0..Len(SoundOrder) :
    /\ sounds' = SetFirst(k)
    /\ initCalls' = [initCalls EXCEPT ![c] =
                       IF k = Len(SoundOrder)
                       THEN [pc |-> "awaitGenerate", outcome |-> "none"]
                       ELSE [pc |-> "resolved", outcome |-> "warned"]]

\* initialize(), call c, from its start to its first await or its return.
initialize(c) ==
  /\ initCalls[c].pc = "idle"
  /\ (IF c = 1 THEN TRUE ELSE initCalls[c - 1].pc # "idle")
  /\ ~MicrotasksPending
  /\ IF AlreadyInitialized
     THEN /\ initCalls' = [initCalls EXCEPT ![c] =
                             [pc |-> "resolved", outcome |-> "returned"]]
          /\ UNCHANGED <<contextState, sounds, isInitialized>>
     ELSE IF contextState = "suspended"
     THEN /\ initCalls' = [initCalls EXCEPT ![c] =
                             [pc |-> "awaitResume", outcome |-> "none"]]
          /\ UNCHANGED <<contextState, sounds, isInitialized>>
     ELSE /\ generateSounds(c)
          /\ UNCHANGED <<contextState, isInitialized>>

\* The promise of call c's audioContext.resume() settles: rejected, and
\* initialize logs a warning and returns; or fulfilled, and initialize goes
\* on to generateSounds.
initializeResumed(c) ==
  /\ initCalls[c].pc = "awaitResume"
  /\ \/ /\ initCalls' = [initCalls EXCEPT ![c] =
                             [pc |-> "resolved", outcome |-> "warned"]]
        /\ UNCHANGED <<contextState, sounds, isInitialized>>
     \/ /\ contextState' = "running"
        /\ generateSounds(c)
        /\ UNCHANGED isInitialized

\* The continuation of call c after `await this.generateSounds()`.
initializeGenerated(c) ==
  /\ initCalls[c].pc = "awaitGenerate"
  /\ isInitialized' = TRUE
  /\ initCalls' = [initCalls EXCEPT ![c] = [pc |-> "resolved", outcome |-> "ok"]]
  /\ UNCHANGED <<contextState, sounds>>

Initialize(c) ==
  /\ initialize(c)
  /\ call' = [op |-> "initialize", arg |-> c]
  /\ played' = <<>>
  /\ UNCHANGED <<engineVars, result, snapshot, distance, writes, cacheRead, uiVars>>

InitializeResumed(c) ==
  /\ initializeResumed(c)
  /\ call' = [op |-> "initialize", arg |-> c]
  /\ played' = <<>>
  /\ UNCHANGED <<engineVars, result, snapshot, distance, writes, cacheRead, uiVars>>

InitializeGenerated(c) ==
  /\ initializeGenerated(c)
  /\ call' = [op |-> "initialize", arg |-> c]
  /\ played' = <<>>
  /\ UNCHANGED <<engineVars, result, snapshot, distance, writes, cacheRead, uiVars>>

\* One playSound(soundName, panValue) call made by an event handler.
PlaySound(soundName, panValue) ==
  /\ ~MicrotasksPending
  /\ \E nodeOk \in BOOLEAN :
       /\ played' = playSound(soundName, panValue, nodeOk)
       /\ call' = [op |-> "playSound", arg |-> soundName, pan |-> panValue,
                   outcome |-> playSoundOutcome(soundName, nodeOk)]
  /\ cacheRead' = (cacheRead \/ isInitialized)
  /\ UNCHANGED <<engineVars, result, snapshot, distance, writes, uiVars>>
  /\ UNCHANGED <<contextState, sounds, isInitialized, initCalls>>

InitAudio ==
  /\ Constructor(5, 5)
  /\ \E state \in {"suspended", "running"} : AudioSystemConstructor(state)
  /\ ComponentState

NextAudio ==
  \/ \E c \in 1..MaxInitCalls : Initialize(c)
  \/ \E c \in 1..MaxInitCalls : InitializeResumed(c)
  \/ \E c \in 1..MaxInitCalls : InitializeGenerated(c)
  \/ \E soundName \in SoundNames \cup {"nonexistent-effect"}, panValue \in PanValues :
       PlaySound(soundName, panValue)

SpecAudio == InitAudio /\ [][NextAudio]_vars

----------------------------------------------------------------------------
\* The game component (EchoQuestGame): key handling, resets, victory timers

Keys == Directions \cup {"r", "h"}

\* In the game every playback node that playSound builds is taken to start
\* (a failure to build one stays inside playSound, see PlaySound).
playDirectionalFootstep(isCorrectDirection, panValue) ==
  playSound(IF isCorrectDirection THEN "footstep-correct" ELSE "footstep-normal",
            panValue, TRUE)

playGoalChime(d) ==
  playSound(IF d <= 2 THEN "goal-near"
            ELSE IF d <= 4 THEN "goal-medium" ELSE "goal-close", 0, TRUE)

playCelebration == playSound("celebration", 0, TRUE)

\* A pan that tells east from the rest only.
PanForEastOnly(direction) == IF direction = "east" THEN 3 ELSE 0

\* The pan handleMove passes with a footstep, in tenths.
PanFor(direction) ==
  IF direction = "east" THEN 3 ELSE IF direction = "west" THEN -3 ELSE 0

\* The playSound calls handleMove makes for the outcome r of a move, each as
\* the effect name and the pan it is called with.
MoveCalls(direction, r) ==
  IF r.hitWall
  THEN << [name |-> "wall-collision", pan |-> 0] >>
  ELSE << [name |-> IF r.isCorrectDirection THEN "footstep-correct"
                    ELSE "footstep-normal",
           pan |-> PanFor(direction)],
          [name |-> "open-space", pan |-> 0] >>
       \o (IF r.distanceToGoal <= 4
           THEN << [name |-> IF r.distanceToGoal <= 2 THEN "goal-near"
                             ELSE "goal-medium",
                    pan |-> 0] >>
           ELSE <<>>)

\* The sounds handleMove plays for the outcome r of a move.
MoveSounds(direction, r) ==
  IF r.hitWall
  THEN playSound("wall-collision", 0, TRUE)
  ELSE playDirectionalFootstep(r.isCorrectDirection, PanFor(direction))
       \o playSound("open-space", 0, TRUE)
       \o (IF r.distanceToGoal <= 4
           THEN playGoalChime(r.distanceToGoal) ELSE <<>>)

\* The effect that runs after a render in which isAudioInitialized or
\* gameState changed: whether it calls playGoalChime, and what that plays.
AutoChimeCalled ==
  /\ isAudioInitialized
  /\ ~gameState.gameWon
  /\ getDistance(gameState.playerPosition, gameState.goalPosition) <= 4

AutoChime ==
  IF AutoChimeCalled
  THEN playGoalChime(getDistance(gameState.playerPosition,
                                 gameState.goalPosition))
  ELSE <<>>

\* The early return of handleKeyPress without the test of isAudioInitialized.
KeyGuardNoAudio == gameState.gameWon \/ isCelebrating

\* The early return of handleKeyPress.
KeyGuard == ~isAudioInitialized \/ gameState.gameWon \/ isCelebrating

\* initializeAudio going on after its await only where initialize succeeded.
AwaitReturnsOnlyOk(c) == initCalls'[c] = [pc |-> "resolved", outcome |-> "ok"]

\* `await audioSystem.initialize()` of call c returns in this step: the
\* promise of initialize is fulfilled however the call ended.
AwaitReturns(c) == initCalls'[c].pc = "resolved"

\* What follows the return of `await audioSystem.initialize()` of call c in
\* initializeAudio, where the call has returned: setIsAudioInitialized(true),
\* the render, and the effects of that render.
InitializeAudioReturns(c) ==
  IF AwaitReturns(c)
  THEN /\ isAudioInitialized' = TRUE
       /\ handlerStale' = (IF isAudioInitialized THEN handlerStale ELSE FALSE)
       /\ UNCHANGED <<isCelebrating, timers, gameState, resets>>
       /\ played' = (IF isAudioInitialized THEN <<>> ELSE AutoChime')
       /\ cacheRead' = (cacheRead \/
                         (~isAudioInitialized /\ AutoChimeCalled' /\ isInitialized'))
  ELSE /\ played' = <<>>
       /\ UNCHANGED <<uiVars, cacheRead>>

\* initializeAudio, from handleAnyKey, up to the first await of initialize.
InitializeAudio ==
  /\ \E c \in 1..MaxEarlyKeys :
       /\ initialize(c)
       /\ call' = [op |-> "initializeAudio", arg |-> c]
       /\ InitializeAudioReturns(c)
  /\ UNCHANGED <<engineVars, result, snapshot, distance, writes>>

\* The part of initializeAudio's call c after audioContext.resume() settles.
AudioResumed(c) ==
  /\ pc = "play"
  /\ initializeResumed(c)
  /\ call' = [op |-> "initializeAudio", arg |-> c]
  /\ InitializeAudioReturns(c)
  /\ UNCHANGED <<engineVars, result, snapshot, distance, writes>>

\* The part of initializeAudio's call c after generateSounds has returned.
AudioGenerated(c) ==
  /\ pc = "play"
  /\ initializeGenerated(c)
  /\ call' = [op |-> "initializeAudio", arg |-> c]
  /\ InitializeAudioReturns(c)
  /\ UNCHANGED <<engineVars, result, snapshot, distance, writes>>

\* getMazeSize(): the size of the selected difficulty.  The difficulty is not
\* changed while a game is played, so it is the size the engine in use was
\* requested with.
getMazeSize == reqWidth

\* resetGame of the component: a new engine and its state are stored.  The
\* registered handleKeyPress is replaced only by a render in which
\* isAudioInitialized, gameState.gameWon or isCelebrating changed; after any
\* other reset it goes on calling the handleMove of the replaced engine, and
\* the engine variables go on holding that engine.
resetGame ==
  /\ resets < MaxResets
  /\ resets' = resets + 1
  /\ call' = [op |-> "newGame", arg |-> "none"]
  /\ gameState' = FreshGameState(getMazeSize)
  /\ isCelebrating' = FALSE
  /\ UNCHANGED <<isAudioInitialized, timers>>
  /\ IF gameState.gameWon \/ isCelebrating
     THEN /\ handlerStale' = FALSE
          /\ reqWidth' = getMazeSize
          /\ reqHeight' = getMazeSize
          /\ playerPosition' = Pos(1, 1)
          /\ goalPosition' = Pos(getMazeSize - 2, getMazeSize - 2)
          /\ maze' = generateMaze(getMazeSize, getMazeSize)
          /\ stack' = << <<1, 1>> >>
          /\ gameWon' = FALSE
          /\ moveCount' = 0
          /\ pc' = "generate"
          /\ result' = NoResult
     ELSE /\ handlerStale' = TRUE
          /\ UNCHANGED <<engineVars, result>>
  /\ UNCHANGED <<contextState, sounds, isInitialized, initCalls>>
  /\ played' = AutoChime'
  /\ cacheRead' = (cacheRead \/ (AutoChimeCalled' /\ isInitialized))
  /\ UNCHANGED <<snapshot, distance, writes>>

\* handleMove(direction) on the engine its closure holds, the render, and
\* the effect of that render.
handleMove(direction) ==
  /\ moveCount < GameMoves
  /\ movePlayer(direction)
  /\ call' = [op |-> "handleMove", arg |-> direction,
              sounds |-> MoveCalls(direction, result')]
  /\ gameState' = [playerPosition |-> playerPosition',
                   goalPosition |-> goalPosition,
                   gameWon |-> gameWon', moveCount |-> moveCount']
  /\ IF ~result'.hitWall /\ gameWon'
     THEN /\ isCelebrating' = TRUE
          /\ timers' = timers \o << [kind |-> "fanfare", game |-> resets],
                                    [kind |-> "unlock", game |-> resets] >>
          /\ handlerStale' = FALSE
     ELSE UNCHANGED <<isCelebrating, timers, handlerStale>>
  /\ UNCHANGED <<pc, reqWidth, reqHeight, maze, stack, goalPosition>>
  /\ UNCHANGED <<contextState, sounds, isInitialized, initCalls>>
  /\ UNCHANGED <<isAudioInitialized, resets, snapshot, distance, writes>>
  /\ played' = MoveSounds(direction, result') \o AutoChime'
  /\ cacheRead' = (cacheRead \/ isInitialized)

\* One keydown event: handleKeyPress, then handleAnyKey.  Where
\* handleKeyPress does not return early, handleAnyKey finds the audio
\* initialized and the game neither won nor celebrating, and does nothing.
KeyDown(key) ==
  /\ pc = "play"
  /\ ~MicrotasksPending
  /\ IF ~KeyGuard
     THEN IF key \in Directions THEN handleMove(key)
          ELSE IF key = "r" THEN resetGame
          ELSE UNCHANGED vars
     ELSE IF ~isAudioInitialized THEN InitializeAudio
          ELSE IF gameState.gameWon /\ ~isCelebrating THEN resetGame
          ELSE UNCHANGED vars

\* A click on the New Game button, shown once the audio is initialized.
ClickNewGame ==
  /\ pc = "play"
  /\ ~MicrotasksPending
  /\ isAudioInitialized
  /\ resetGame

\* Timer i is due before every other pending timer can be: the fanfare of a
\* win comes 200 ms and its unlock 3000 ms after the winning move.
Due(i) ==
  \A j \in 1..(i - 1) : timers[j].kind = "unlock" /\ timers[i].kind = "fanfare"

RemoveAt(q, i) == SubSeq(q, 1, i - 1) \o SubSeq(q, i + 1, Len(q))

\* A timeout callback scheduled by handleMove runs.
Timeout(i) ==
  /\ pc = "play"
  /\ ~MicrotasksPending
  /\ i \in 1..Len(timers)
  /\ Due(i)
  /\ timers' = RemoveAt(timers, i)
  /\ call' = [op |-> "timeout", arg |-> timers[i].kind, game |-> timers[i].game]
  /\ IF timers[i].kind = "fanfare"
     THEN /\ played' = playCelebration
          /\ cacheRead' = (cacheRead \/ isInitialized)
          /\ UNCHANGED isCelebrating
     ELSE /\ isCelebrating' = FALSE
          /\ played' = <<>>
          /\ UNCHANGED cacheRead
  /\ UNCHANGED <<isAudioInitialized, gameState, handlerStale, resets>>
  /\ UNCHANGED <<contextState, sounds, isInitialized, initCalls>>
  /\ UNCHANGED <<engineVars, result, snapshot, distance, writes>>

\* The component is mounted with an engine of GameSize x GameSize under
\* construction and an AudioSystem whose context the browser has suspended
\* or not.
InitGame ==
  /\ Constructor(GameSize, GameSize)
  /\ \E state \in {"suspended", "running"} : AudioSystemConstructor(state)
  /\ ComponentState

NextGame ==
  \/ GenerateMazeDFSStep
  \/ \E key \in Keys : KeyDown(key)
  \/ ClickNewGame
  \/ \E c \in 1..MaxEarlyKeys : AudioResumed(c)
  \/ \E c \in 1..MaxEarlyKeys : AudioGenerated(c)
  \/ \E i \in 1..(2 * (MaxResets + 1)) : Timeout(i)

SpecGame == InitGame /\ [][NextGame]_vars

\* The component on a larger difficulty, whose goal is more than four steps
\* from the start, with the audio context suspended until the first key.  The
\* player does not reset, and no game is won within the moves looked at, so
\* no victory timer is ever pending.
LargeGameSize == 7

InitLargeGame ==
  /\ Constructor(LargeGameSize, LargeGameSize)
  /\ AudioSystemConstructor("suspended")
  /\ ComponentState

NextLargeGame ==
  \/ GenerateMazeDFSStep
  \/ \E key \in Keys \ {"r"} : KeyDown(key)
  \/ \E c \in 1..MaxEarlyKeys : AudioResumed(c)
  \/ \E c \in 1..MaxEarlyKeys : AudioGenerated(c)

SpecLargeGame == InitLargeGame /\ [][NextLargeGame]_vars

----------------------------------------------------------------------------
\* Reference notions the properties are stated with

Cells(m) == {Pos(cx, cy) : cx \in 0..(Width(m) - 1), cy \in 0..(Height(m) - 1)}

InGrid(m, c) == c.x >= 0 /\ c.x < Width(m) /\ c.y >= 0 /\ c.y < Height(m)

EmptyCells(m) == {c \in Cells(m) : m[c.y][c.x] = CELL_EMPTY}

Adjacent(a, b) == Abs(a.x - b.x) + Abs(a.y - b.y) = 1

Neighbours(c) ==
  {Pos(c.x + 1, c.y), Pos(c.x - 1, c.y), Pos(c.x, c.y + 1), Pos(c.x, c.y - 1)}

IsEmptyCell(m, c) == InGrid(m, c) /\ m[c.y][c.x] = CELL_EMPTY

\* EMPTY cells next to a cell of frontier and not in seen.
Fringe(m, frontier, seen) ==
  {n \in UNION {Neighbours(f) : f \in frontier} : IsEmptyCell(m, n) /\ n \notin seen}

\* Length of a shortest walk from `from` to `to` whose every step enters an
\* EMPTY cell, by growing the set of cells at distance d; NO_PATH if none.
RECURSIVE Layer(_, _, _, _, _)
Layer(m, to, frontier, seen, d) ==
  IF to \in frontier THEN d
  ELSE IF frontier = {} THEN NO_PATH
  ELSE LET next == Fringe(m, frontier, seen)
       IN  Layer(m, to, next, seen \cup next, d + 1)

ShortestPath(m, from, to) == Layer(m, to, {from}, {from}, 0)

\* Cells joined to the cells of seen by a walk through EMPTY cells.
RECURSIVE Grow(_, _, _)
Grow(m, frontier, seen) ==
  LET next == Fringe(m, frontier, seen)
  IN  IF next = {} THEN seen ELSE Grow(m, next, seen \cup next)

Reach(m, from) == Grow(m, from, from)

Connected(m, from, to) == to \in Reach(m, {from})

\* Pairs of 4-adjacent EMPTY cells, each pair once: an EMPTY cell with its
\* EMPTY neighbour to the east, or to the south.
EastEdges(m) == {c \in EmptyCells(m) : IsEmptyCell(m, Pos(c.x + 1, c.y))}
SouthEdges(m) == {c \in EmptyCells(m) : IsEmptyCell(m, Pos(c.x, c.y + 1))}
EdgeCount(m) == Cardinality(EastEdges(m)) + Cardinality(SouthEdges(m))

\* The cell one step from pos in the named direction.
Target(pos, direction) ==
  IF direction = "north" THEN Pos(pos.x, pos.y - 1)
  ELSE IF direction = "south" THEN Pos(pos.x, pos.y + 1)
  ELSE IF direction = "east" THEN Pos(pos.x + 1, pos.y)
  ELSE Pos(pos.x - 1, pos.y)

Blocked(m, pos, direction) ==
  LET t == Target(pos, direction)
  IN  ~InGrid(m, t) \/ m[t.y][t.x] = CELL_WALL

Start == Pos(1, 1)

NextOddAtLeast5(n) ==
  LET odd == IF n % 2 = 0 THEN n + 1 ELSE n
  IN  IF odd < 5 THEN 5 ELSE odd

----------------------------------------------------------------------------
\* C1: once an engine is built, by the constructor for any requested width
\* and height or by a reset, the start cell (1,1) and the goalPosition cell
\* are EMPTY and the shortest distance from start to goalPosition is below
\* 9999.
C1_StartGoalEmptySolvable ==
  pc = "play" =>
    /\ maze[1][1] = CELL_EMPTY
    /\ InGrid(maze, goalPosition)
    /\ maze[goalPosition.y][goalPosition.x] = CELL_EMPTY
    /\ BFSFrom(maze, Start, goalPosition) < NO_PATH

\* C2: a movePlayer whose target cell is out of bounds or WALL leaves
\* playerPosition, moveCount, gameWon, goalPosition and the grid unchanged and
\* returns success=false, hitWall=true, isCorrectDirection=false and the
\* shortest-path distance from the unchanged player position to the goal.
C2_BlockedMoveNoMutation ==
  [][(call'.op = "movePlayer" /\ Blocked(maze, playerPosition, call'.arg)) =>
       /\ UNCHANGED <<playerPosition, moveCount, gameWon, goalPosition, maze>>
       /\ result' = [success |-> FALSE, hitWall |-> TRUE,
                     isCorrectDirection |-> FALSE,
                     distanceToGoal |->
                       ShortestPath(maze', playerPosition', goalPosition')]]_vars

C2_Witness ==
  /\ pc = "play"
  /\ call.op = "movePlayer"
  /\ result.hitWall
  /\ moveCount > 0
  /\ Blocked(maze, playerPosition, call.arg)
  /\ result.distanceToGoal \notin {0, NO_PATH}

\* C3: a movePlayer into an in-bounds EMPTY cell increments moveCount by
\* exactly 1 and returns as distanceToGoal the shortest-path distance from the
\* new player position to the goal.
C3_MoveReturnsShortestPath ==
  [][(call'.op = "movePlayer" /\ ~Blocked(maze, playerPosition, call'.arg)) =>
       /\ moveCount' = moveCount + 1
       /\ result'.distanceToGoal =
            ShortestPath(maze', playerPosition', goalPosition')]_vars

\* C4: isCorrectDirection is true exactly for a successful move after which
\* the shortest-path distance to the goal is strictly less than before it;
\* false on ties, on increases and on every blocked move.
C4_CorrectDirectionIffCloser ==
  [][call'.op = "movePlayer" =>
       (result'.isCorrectDirection <=>
          /\ result'.success
          /\ ShortestPath(maze', playerPosition', goalPosition')
               < ShortestPath(maze, playerPosition, goalPosition))]_vars

\* C5: once gameWon is true every further movePlayer leaves playerPosition
\* and moveCount unchanged and returns hitWall=true, success=false.
C5_WonIsTerminal ==
  [][(gameWon /\ call'.op = "movePlayer") =>
       /\ UNCHANGED <<playerPosition, moveCount>>
       /\ result'.hitWall
       /\ ~result'.success]_vars

\* C6: gameWon is false at construction and after reset; it becomes true in
\* exactly the movePlayer call that puts the player on the goal cell, which
\* returns distanceToGoal 0, and no other successful move returns 0; no
\* movePlayer or getGameState call sets it back to false; with the goal two
\* cells south along an open column, movePlayer(south) twice returns 1 then 0
\* and gameWon is true only after the second call.
C6_FreshNotWon ==
  (pc = "generate" \/ call.op \in {"constructor", "resetGame"}) => ~gameWon

C6_ZeroIffOnGoal ==
  (call.op = "movePlayer" /\ result.success) =>
     /\ (result.distanceToGoal = 0 <=> playerPosition = goalPosition)
     /\ (playerPosition = goalPosition => gameWon)

C6_Scenario ==
  (/\ pc = "play"
   /\ Width(maze) = 3 /\ Height(maze) = 5 /\ goalPosition = Pos(1, 3)
   /\ call = [op |-> "movePlayer", arg |-> "south"]
   /\ result.success) =>
     /\ moveCount = 1 => (result.distanceToGoal = 1 /\ ~gameWon)
     /\ moveCount = 2 => (result.distanceToGoal = 0 /\ gameWon)

C7_CoercedDimensionsAndGoal ==
  (pc = "play" /\ call.op = "constructor") =>
     /\ Width(maze) = NextOddAtLeast5(reqWidth)
     /\ Height(maze) = NextOddAtLeast5(reqHeight)
     /\ goalPosition = Pos(Width(maze) - 2, Height(maze) - 2)
     /\ (reqWidth = 4 /\ reqHeight = 4) =>
          (Width(maze) = 5 /\ Height(maze) = 5 /\ goalPosition = Pos(3, 3))

\* C8: in every generated grid the EMPTY cells form a tree under
\* 4-adjacency: every EMPTY cell is joined to the start through EMPTY cells,
\* and there is one adjacent pair fewer than there are EMPTY cells, so no
\* cycle.
C8_EmptyCellsFormTree ==
  pc = "play" =>
    /\ Reach(maze, {Start}) = EmptyCells(maze)
    /\ EdgeCount(maze) = Cardinality(EmptyCells(maze)) - 1

\* A generated grid with a junction: an EMPTY cell with three EMPTY neighbours.
C8_Witness ==
  /\ pc = "play"
  /\ \E c \in EmptyCells(maze) :
       Cardinality({n \in EmptyCells(maze) : Adjacent(c, n)}) >= 3

\* C9: on every grid, connected or not, and every player position the BFS
\* routine returns the minimum number of 4-adjacent steps through EMPTY cells
\* from the player to the goal, 9999 exactly when the goal is not joined to
\* the player, and the monitor's copy returns the same value.
C9_BfsIsShortestPath ==
  distance # NoDistance =>
    /\ distance.engine = ShortestPath(maze, playerPosition, goalPosition)
    /\ (distance.engine = NO_PATH <=> ~Connected(maze, playerPosition, goalPosition))
    /\ distance.monitor = distance.engine

\* The goal is joined to the player only by a detour longer than the
\* straight-line distance.
C9_Witness ==
  /\ distance # NoDistance
  /\ distance.engine < NO_PATH
  /\ distance.engine > getDistance(playerPosition, goalPosition)

\* C10: no write a caller makes to the value getGameState returned (a cell of
\* its maze, a coordinate of its playerPosition or goalPosition) changes the
\* engine's grid, playerPosition or goalPosition.
C10_SnapshotIsDefensiveCopy ==
  [][call'.op = "callerWrite" =>
       UNCHANGED <<maze, playerPosition, goalPosition>>]_vars

\* C11: canMove(direction) returns true exactly when the cell one step from
\* the player in that direction is inside the grid and EMPTY; it changes
\* nothing of the engine; and a movePlayer(direction) advances exactly when
\* canMove(direction) is true in the state it is called in.
C11_CanMoveIsPureAndAgreesWithMove ==
  [][/\ (call'.op = "canMove" =>
          /\ call'.value = IsEmptyCell(maze, Target(playerPosition, call'.arg))
          /\ UNCHANGED <<engineVars, result, snapshot>>)
     /\ (call'.op = "movePlayer" =>
          /\ result'.success = canMove(call'.arg)
          /\ (playerPosition' # playerPosition) = canMove(call'.arg)
          /\ moveCount' = moveCount + (IF canMove(call'.arg) THEN 1 ELSE 0))]_vars

C11_Witness ==
  /\ call.op = "canMove"
  /\ call.value
  /\ moveCount > 0
  /\ \E d \in Directions : ~canMove(d) /\ isValidPosition(getNewPosition(d))

\* The cells with two odd coordinates inside the border.
OddCells(m) == {c \in Cells(m) : c.x % 2 = 1 /\ c.y % 2 = 1}

\* C12: resetGame, called with the game in progress or won, sets the player
\* to (1,1), moveCount to 0, gameWon to false and goalPosition to
\* (width-2, height-2) of a grid with the dimensions of the previous grid;
\* the regeneration that completes the call keeps all of these and ends with
\* a grid whose odd-coordinate cells are EMPTY and whose start and goal
\* cells are EMPTY and joined.
C12_ResetReinitializes ==
  [][/\ ((pc = "play" /\ pc' = "generate") =>
          /\ playerPosition' = Pos(1, 1)
          /\ moveCount' = 0
          /\ gameWon' = FALSE
          /\ Width(maze') = Width(maze)
          /\ Height(maze') = Height(maze)
          /\ goalPosition' = Pos(Width(maze') - 2, Height(maze') - 2))
     /\ ((pc = "generate" /\ call.op = "resetGame") =>
          /\ UNCHANGED <<playerPosition, moveCount, gameWon, goalPosition>>
          /\ Width(maze') = Width(maze)
          /\ Height(maze') = Height(maze)
          /\ (pc' = "play" =>
                /\ \A c \in OddCells(maze') : IsEmptyCell(maze', c)
                /\ IsEmptyCell(maze', playerPosition')
                /\ IsEmptyCell(maze', goalPosition')
                /\ Connected(maze', playerPosition', goalPosition')))]_vars

C12_Witness ==
  /\ pc = "play"
  /\ call.op = "resetGame"
  /\ goalPosition # Pos(reqWidth - 2, reqHeight - 2)
  /\ playerPosition = Pos(1, 1)
  /\ moveCount = 0

\* C17: for every grid size and every sequence of shuffles the carve loop
\* terminates (the stack empties and the generator returns), and when it has
\* every cell with two odd coordinates inside the border is EMPTY.
C17_CarveLoopTerminatesCovering ==
  /\ [](pc = "generate" => <>(pc = "play" /\ stack = <<>>))
  /\ [](pc = "play" => \A c \in OddCells(maze) : maze[c.y][c.x] = CELL_EMPTY)

C17_Witness ==
  /\ pc = "play"
  /\ stack = <<>>
  /\ Width(maze) >= 7
  /\ Height(maze) >= 5
  /\ Cardinality(EmptyCells(maze)) = 2 * Cardinality(OddCells(maze)) - 1

\* C18: in every grid the corridor-plus-cross generator builds, for every
\* requested width and height, the start cell (1,1) and the goal cell
\* (width-2, height-2) are EMPTY and joined through EMPTY cells, before and
\* after the two strategic walls are placed.
C18_CorridorStartGoalConnected ==
  pc \in {"walls", "play"} =>
    /\ goalPosition = Pos(Width(maze) - 2, Height(maze) - 2)
    /\ IsEmptyCell(maze, Start)
    /\ IsEmptyCell(maze, goalPosition)
    /\ Connected(maze, Start, goalPosition)

C18_Witness ==
  /\ pc = "play"
  /\ Width(maze) = 7
  /\ Height(maze) = 6
  /\ maze[2][3] = CELL_WALL
  /\ maze[3][3] = CELL_WALL
  /\ maze[3][2] = CELL_EMPTY
  /\ Connected(maze, Start, goalPosition)

\* C13: a playSound(name, pan) made while the subsystem is not initialized
\* or name is not a key of the cache starts no playback node and returns
\* normally; a node is started only when the subsystem is initialized and
\* name is cached; no playSound ends by raising, and none changes the
\* subsystem.
C13_PlaySoundSilentNoOp ==
  [][call'.op = "playSound" =>
       /\ ((~isInitialized \/ call'.arg \notin SoundNames
             \/ sounds[call'.arg] = 0) =>
            (played' = <<>> /\ call'.outcome = "skipped"))
       /\ (played' # <<>> =>
            /\ isInitialized
            /\ call'.arg \in SoundNames
            /\ sounds[call'.arg] > 0
            /\ Len(played') = 1
            /\ played'[1].name = call'.arg)
       /\ call'.outcome \in {"skipped", "started", "warned"}
       /\ UNCHANGED <<contextState, sounds, isInitialized, initCalls>>]_vars

C13_Witness ==
  /\ call.op = "playSound"
  /\ call.arg = "nonexistent-effect"
  /\ isInitialized
  /\ played = <<>>
  /\ call.outcome = "skipped"

\* C15: an initialize() call made once the flag is set (a call has completed
\* successfully) returns at once: it does not call resume, does not
\* synthesize, and leaves the cache, the flag and the context as they were.
C15_InitializeIdempotent ==
  [][\A c \in 1..MaxInitCalls :
       (isInitialized /\ initCalls[c].pc = "idle" /\ initCalls'[c].pc # "idle") =>
         /\ initCalls'[c] = [pc |-> "resolved", outcome |-> "returned"]
         /\ UNCHANGED <<sounds, isInitialized, contextState>>]_vars

C15_Witness ==
  /\ initCalls[1].outcome = "ok"
  /\ initCalls[2].outcome = "returned"
  /\ isInitialized
  /\ \A n \in SoundNames : sounds[n] = 1

\* C19: the pan a playSound(name, pan) writes to the stereo-pan stage of the
\* node it starts is pan itself inside [-1, 1], 1 for pan above 1 and -1 for
\* pan below -1 (in tenths: 10 and -10).
C19_PanClamped ==
  [][(call'.op = "playSound" /\ played' # <<>>) =>
       played'[1].pan = (IF call'.pan > 10 THEN 10
                         ELSE IF call'.pan < -10 THEN -10
                         ELSE call'.pan)]_vars

C19_Witness ==
  /\ call.op = "playSound"
  /\ call.arg = "footstep-correct"
  /\ call.pan = 20
  /\ played = << [name |-> "footstep-correct", pan |-> 10] >>

\* C20: under every interleaving of initialize() calls and playSound calls
\* each cache entry is set at most once, and no entry is set once the flag
\* is true or once a playSound has looked a name up in the cache.
C20_CacheWrittenOnce ==
  [][/\ \A n \in SoundNames : sounds'[n] <= 1
     /\ (sounds' # sounds => (~isInitialized /\ ~cacheRead))]_vars

\* C14: an initialize() call whose resume is rejected or whose synthesis
\* throws returns without raising and without setting the flag, and the
\* component then enables input; as long as no call has succeeded the flag
\* is false and no sound is played; and with the flag false a move attempt
\* still runs movePlayer on the engine and shows the engine's new state.
C14_FailedInitLeavesGamePlayable ==
  [][/\ \A c \in 1..MaxInitCalls :
          (initCalls[c].outcome = "none" /\ initCalls'[c].outcome = "warned") =>
            /\ initCalls'[c].pc = "resolved"
            /\ isInitialized' = isInitialized
            /\ isAudioInitialized'
     /\ ((\A c \in 1..MaxInitCalls : initCalls'[c].outcome # "ok") =>
          (~isInitialized' /\ played' = <<>>))
     /\ ((call'.op = "handleMove" /\ ~isInitialized) =>
          /\ result'.success = canMove(call'.arg)
          /\ moveCount' = moveCount + (IF canMove(call'.arg) THEN 1 ELSE 0)
          /\ playerPosition' =
               (IF canMove(call'.arg) THEN Target(playerPosition, call'.arg)
                ELSE playerPosition)
          /\ gameState'.playerPosition = playerPosition'
          /\ gameState'.moveCount = moveCount'
          /\ gameState'.gameWon = gameWon')]_vars

C14_Witness ==
  /\ initCalls[1].outcome = "warned"
  /\ ~isInitialized
  /\ isAudioInitialized
  /\ call.op = "handleMove"
  /\ result.success
  /\ moveCount >= 2
  /\ played = <<>>

\* C16: no key press makes movePlayer run on the engine before a call of
\* initialize() has returned: until then the engine's player, moveCount,
\* gameWon and last result stay as they are whatever key is pressed, and
\* every handleMove happens with isAudioInitialized set.
C16_InputGatedOnInitialize ==
  [][/\ (call'.op = "handleMove" =>
          /\ isAudioInitialized
          /\ \E c \in 1..MaxInitCalls : initCalls[c].pc = "resolved")
     /\ ((\A c \in 1..MaxInitCalls : initCalls[c].pc # "resolved") =>
          UNCHANGED <<playerPosition, moveCount, gameWon, result, gameState>>)]_vars

C16_Witness ==
  /\ call.op = "handleMove"
  /\ call.arg \in Directions
  /\ result.success
  /\ isAudioInitialized
  /\ \E c \in 1..MaxInitCalls : initCalls[c].pc = "resolved"

\* C21: when no walk through EMPTY cells joins the player to the goal after a
\* move, the distanceToGoal the move returns -- the value handleMove compares
\* with its proximity threshold of 4 -- is above that threshold, so the move
\* triggers no goal-proximity sound.
C21_UnreachableGoalNoProximitySound ==
  [][(/\ call'.op = "movePlayer"
      /\ ShortestPath(maze', playerPosition', goalPosition') = NO_PATH) =>
       result'.distanceToGoal > 4]_vars

\* C22: from the end of generation to the next resetGame, no call of
\* movePlayer, canMove, getGameState or getMazeString changes a cell of the
\* engine's grid or the goalPosition; the marks of getMazeString show in the
\* string it returns and not in the grid.
C22_GridReadOnlyAfterGeneration ==
  [][/\ (call'.op \in {"movePlayer", "canMove", "getGameState", "getMazeString"} =>
          /\ maze' = maze
          /\ goalPosition' = goalPosition)
     /\ ((pc = "play" /\ pc' = "play") =>
          /\ maze' = maze
          /\ goalPosition' = goalPosition
          /\ \A c \in Cells(maze') : maze'[c.y][c.x] \in {CELL_EMPTY, CELL_WALL})
     /\ (call'.op = "getMazeString" =>
          /\ call'.value[goalPosition.y][goalPosition.x] = "G"
          /\ (playerPosition # goalPosition =>
                call'.value[playerPosition.y][playerPosition.x] = "P")
          /\ \A c \in Cells(maze) \ {playerPosition, goalPosition} :
                call'.value[c.y][c.x] =
                  (IF maze[c.y][c.x] = CELL_WALL THEN "#" ELSE "."))]_vars

C22_Witness ==
  /\ pc = "play"
  /\ call.op = "getMazeString"
  /\ moveCount >= 2
  /\ playerPosition # Pos(1, 1)
  /\ call.value[playerPosition.y][playerPosition.x] = "P"
  /\ maze[playerPosition.y][playerPosition.x] = CELL_EMPTY

\* C24: in every state reached from construction by movePlayer and resetGame
\* calls, playerPosition is inside the grid and the grid cell at
\* playerPosition is EMPTY.
C24_PlayerOnEmptyCellInGrid ==
  /\ InGrid(maze, playerPosition)
  /\ maze[playerPosition.y][playerPosition.x] = CELL_EMPTY

C24_Witness ==
  /\ pc = "play"
  /\ call.op = "movePlayer"
  /\ result.success
  /\ moveCount >= 2
  /\ playerPosition \notin {Pos(1, 1), goalPosition}
  /\ \E direction \in Directions : Blocked(maze, playerPosition, direction)

Footsteps == {"footstep-correct", "footstep-normal"}
GoalSounds == {"goal-near", "goal-medium", "goal-close"}

\* The entries of a sequence of sounds whose name is in names.
Named(q, names) == {i \in 1..Len(q) : q[i].name \in names}

C25_KeysReachNewEngineAfterReset ==
  [][call'.op = "handleMove" =>
       /\ ~handlerStale
       /\ gameState'.moveCount =
            gameState.moveCount + (IF result'.success THEN 1 ELSE 0)
       /\ gameState'.playerPosition =
            (IF result'.success
             THEN Target(gameState.playerPosition, call'.arg)
             ELSE gameState.playerPosition)]_vars

\* C26: once a winning move has set isCelebrating, only a reset or the
\* 3-second timer scheduled by that same win clears it; a timer left over
\* from the win of an earlier game leaves isCelebrating as it is, and its
\* fanfare does not sound while the game now displayed is not won.
C26_CelebrationLockOwnedByItsWin ==
  [][/\ ((isCelebrating /\ ~isCelebrating') =>
          \/ call'.op = "newGame"
          \/ /\ call'.op = "timeout"
             /\ call'.arg = "unlock"
             /\ call'.game = resets)
     /\ ((call'.op = "timeout" /\ call'.game # resets) =>
          isCelebrating' = isCelebrating)
     /\ ((call'.op = "timeout" /\ call'.arg = "fanfare" /\ ~gameState.gameWon) =>
          played' = <<>>)]_vars

====
